---- MODULE Spec2Model ----
(***************************************************************************)
(* Model of the ruby_string crate: RubyString (src/src/string.rs), the     *)
(* Segment type and the SegmentIterator (src/src/iterator.rs).             *)
(*                                                                         *)
(* A str / String is a sequence of UTF-8 bytes; all indices are byte       *)
(* offsets, 0-based as in the source (a slice s[a..b] is SubSeq(s,a+1,b)). *)
(***************************************************************************)
EXTENDS Integers, Sequences, FiniteSets, TLC

VARIABLES rs, ctor, hist, last_call, live, its, out, ret

vars == <<rs, ctor, hist, last_call, live, its, out, ret>>

(***************************************************************************)
(* Bounds of the model and the inputs the calls are drawn from.            *)
(***************************************************************************)
\* number of constructor-with-text and push calls made on the container
MaxCalls == 3

\* number of segments one extend() call is handed
MaxExtend == 2

\* the two cursors segments() is called for
Cursors == {1, 2}

\* UTF-8 encodings of U+FFF9, U+FFFA, U+FFFB
ANCHOR == <<239, 191, 185>>
SEPARATOR == <<239, 191, 186>>
TERMINATOR == <<239, 191, 187>>

\* "", "a", and a text that is itself the annotation anchor U+FFF9
Texts == { <<>>, <<97>>, ANCHOR }

\* "" and the three-byte gloss U+3068
Rubies == { <<>>, <<227, 129, 168>> }

(***************************************************************************)
(* Segment<'a>                                                             *)
(***************************************************************************)
Plain(text) == [kind |-> "Plain", text |-> text]

Rubied(text, ruby) == [kind |-> "Rubied", text |-> text, ruby |-> ruby]

Segments == { Plain(t) : t \in Texts } \cup { Rubied(t, r) : t \in Texts, r \in Rubies }

\* what an impl IntoIterator<Item = Segment> hands over, in order
SegmentIters == UNION { [1..n -> Segments] : n \in 0..MaxExtend }

\* a plain_text that hands out the gloss of a rubied segment
plain_text_gloss(self) ==
    IF self.kind = "Plain" THEN self.text ELSE self.ruby

plain_text(self) ==
    IF self.kind = "Plain" THEN self.text ELSE self.text

Segment_to_interlinear_encoding(self) ==
    IF self.kind = "Plain"
    THEN self.text
    ELSE ANCHOR \o self.text \o SEPARATOR \o self.ruby \o TERMINATOR

(***************************************************************************)
(* Option<Segment>, and the panic a str slice raises                       *)
(***************************************************************************)
None == [tag |-> "None"]

Some(x) == [tag |-> "Some", val |-> x]

Panic == [tag |-> "Panic"]

Unstarted == [tag |-> "Unstarted"]

\* str::is_char_boundary: offset 0, the length, or a byte that is no
\* UTF-8 continuation byte (0x80..0xBF)
IsCharBoundary(s, i) ==
    \/ i = 0
    \/ i = Len(s)
    \/ i < Len(s) /\ ~(s[i + 1] \in 128..191)

\* &s[a..b] is defined when a <= b <= len and both are char boundaries
SliceOK(s, a, b) ==
    /\ a <= b
    /\ b <= Len(s)
    /\ IsCharBoundary(s, a)
    /\ IsCharBoundary(s, b)

Slice(s, a, b) == SubSeq(s, a + 1, b)

(***************************************************************************)
(* RubyString                                                              *)
(***************************************************************************)
\* a constructor that starts with a text already in the buffer
new_nonempty ==
    [packed_text |-> <<97>>, packed_ruby |-> <<>>, placements |-> <<>>]

new ==
    [packed_text |-> <<>>, packed_ruby |-> <<>>, placements |-> <<>>]

from(val) ==
    [packed_text |-> val, packed_ruby |-> <<>>, placements |-> <<>>]

\* a push_str that throws the glosses away
push_str_clears_ruby(self, string) ==
    [self EXCEPT !.packed_text = self.packed_text \o string,
                 !.packed_ruby = <<>>]

push_str(self, string) ==
    [self EXCEPT !.packed_text = self.packed_text \o string]

\* a push_segment that records a placement for plain segments too
push_segment_places_plain(self, segment) ==
    LET text_start == Len(self.packed_text)
        ruby_start == Len(self.packed_ruby)
        ruby == IF segment.kind = "Plain" THEN <<>> ELSE segment.ruby
    IN  [packed_text |-> self.packed_text \o segment.text,
         packed_ruby |-> self.packed_ruby \o ruby,
         placements |-> Append(self.placements,
             [text_start |-> text_start,
              text_end |-> text_start + Len(segment.text),
              ruby_start |-> ruby_start,
              ruby_end |-> ruby_start + Len(ruby)])]

\* a push_segment that starts the placement list over for each gloss
push_segment_overwrites(self, segment) ==
    IF segment.kind = "Plain"
    THEN [self EXCEPT !.packed_text = self.packed_text \o segment.text]
    ELSE LET text_start == Len(self.packed_text)
             ruby_start == Len(self.packed_ruby)
         IN  [packed_text |-> self.packed_text \o segment.text,
              packed_ruby |-> self.packed_ruby \o segment.ruby,
              placements |-> <<[text_start |-> text_start,
                                text_end |-> text_start + Len(segment.text),
                                ruby_start |-> ruby_start,
                                ruby_end |-> ruby_start + Len(segment.ruby)]>>]

\* a push_segment that reads text_start after it has appended the text
push_segment_late_start(self, segment) ==
    IF segment.kind = "Plain"
    THEN [self EXCEPT !.packed_text = self.packed_text \o segment.text]
    ELSE LET text_start == Len(self.packed_text \o segment.text)
             ruby_start == Len(self.packed_ruby)
         IN  [packed_text |-> self.packed_text \o segment.text,
              packed_ruby |-> self.packed_ruby \o segment.ruby,
              placements |-> Append(self.placements,
                  [text_start |-> text_start,
                   text_end |-> text_start + Len(segment.text),
                   ruby_start |-> ruby_start,
                   ruby_end |-> ruby_start + Len(segment.ruby)])]

\* a push_segment that takes ruby_start from the text buffer
push_segment_ruby_from_text(self, segment) ==
    IF segment.kind = "Plain"
    THEN [self EXCEPT !.packed_text = self.packed_text \o segment.text]
    ELSE LET text_start == Len(self.packed_text)
             ruby_start == Len(self.packed_text)
         IN  [packed_text |-> self.packed_text \o segment.text,
              packed_ruby |-> self.packed_ruby \o segment.ruby,
              placements |-> Append(self.placements,
                  [text_start |-> text_start,
                   text_end |-> text_start + Len(segment.text),
                   ruby_start |-> ruby_start,
                   ruby_end |-> ruby_start + Len(segment.ruby)])]

\* a push_segment that measures text_end with the length of the gloss
push_segment_text_end_from_ruby(self, segment) ==
    IF segment.kind = "Plain"
    THEN [self EXCEPT !.packed_text = self.packed_text \o segment.text]
    ELSE LET text_start == Len(self.packed_text)
             ruby_start == Len(self.packed_ruby)
         IN  [packed_text |-> self.packed_text \o segment.text,
              packed_ruby |-> self.packed_ruby \o segment.ruby,
              placements |-> Append(self.placements,
                  [text_start |-> text_start,
                   text_end |-> text_start + Len(segment.ruby),
                   ruby_start |-> ruby_start,
                   ruby_end |-> ruby_start + Len(segment.ruby)])]

push_segment(self, segment) ==
    IF segment.kind = "Plain"
    THEN [self EXCEPT !.packed_text = self.packed_text \o segment.text]
    ELSE LET text_start == Len(self.packed_text)
             ruby_start == Len(self.packed_ruby)
         IN  [packed_text |-> self.packed_text \o segment.text,
              packed_ruby |-> self.packed_ruby \o segment.ruby,
              placements |-> Append(self.placements,
                  [text_start |-> text_start,
                   text_end |-> text_start + Len(segment.text),
                   ruby_start |-> ruby_start,
                   ruby_end |-> ruby_start + Len(segment.ruby)])]

\* iter.into_iter().for_each(move |s| self.push_segment(s))
RECURSIVE extend(_, _)
extend(self, iter) ==
    IF iter = <<>> THEN self
    ELSE extend(push_segment(self, Head(iter)), Tail(iter))

from_iter(iter) == extend(new, iter)

segments(self) ==
    [next_text_start |-> 0, next_placement_idx |-> 0]

(***************************************************************************)
(* SegmentIterator::next: the cursor after the call and the value returned *)
(***************************************************************************)
\* a final plain run handed out one character at a time
next_unrubied_rest_by_char(string, self) ==
    LET text_end == CHOOSE e \in (self.next_text_start + 1)..Len(string.packed_text) :
                        /\ IsCharBoundary(string.packed_text, e)
                        /\ \A d \in (self.next_text_start + 1)..(e - 1) :
                               ~IsCharBoundary(string.packed_text, d)
    IN  [self |-> [self EXCEPT !.next_text_start = text_end],
         item |-> Some(Plain(Slice(string.packed_text,
                                   self.next_text_start, text_end)))]

\* "only unrubied text left in the RubyString"
next_unrubied_rest(string, self) ==
    LET text_end == Len(string.packed_text)
    IN  IF SliceOK(string.packed_text, self.next_text_start, text_end)
        THEN [self |-> [self EXCEPT !.next_text_start = text_end],
              item |-> Some(Plain(Slice(string.packed_text,
                                        self.next_text_start, text_end)))]
        ELSE [self |-> self, item |-> Panic]

\* a plain run before a placement after which the cursor stands at the
\* placement's end
next_plain_until_overshoots(string, self, placement) ==
    IF SliceOK(string.packed_text, self.next_text_start, placement.text_start)
    THEN [self |-> [self EXCEPT !.next_text_start = placement.text_end],
          item |-> Some(Plain(Slice(string.packed_text,
                                    self.next_text_start, placement.text_start)))]
    ELSE [self |-> self, item |-> Panic]

\* a plain run before a placement handed out one character at a time
next_plain_until_by_char(string, self, placement) ==
    LET text_end == CHOOSE e \in (self.next_text_start + 1)..placement.text_start :
                        /\ IsCharBoundary(string.packed_text, e)
                        /\ \A d \in (self.next_text_start + 1)..(e - 1) :
                               ~IsCharBoundary(string.packed_text, d)
    IN  [self |-> [self EXCEPT !.next_text_start = text_end],
         item |-> Some(Plain(Slice(string.packed_text,
                                   self.next_text_start, text_end)))]

\* "we have not reached the next rubied part yet - yield the plain text until there"
next_plain_until(string, self, placement) ==
    IF SliceOK(string.packed_text, self.next_text_start, placement.text_start)
    THEN [self |-> [self EXCEPT !.next_text_start = placement.text_start],
          item |-> Some(Plain(Slice(string.packed_text,
                                    self.next_text_start, placement.text_start)))]
    ELSE [self |-> self, item |-> Panic]

\* a rubied part after which next_text_start is left where it was
next_rubied_stays(string, self, placement) ==
    IF /\ SliceOK(string.packed_text, placement.text_start, placement.text_end)
       /\ SliceOK(string.packed_ruby, placement.ruby_start, placement.ruby_end)
    THEN [self |-> [next_text_start |-> self.next_text_start,
                    next_placement_idx |-> self.next_placement_idx + 1],
          item |-> Some(Rubied(
              Slice(string.packed_text, placement.text_start, placement.text_end),
              Slice(string.packed_ruby, placement.ruby_start, placement.ruby_end)))]
    ELSE [self |-> self, item |-> Panic]

\* "yield a rubied part"
next_rubied(string, self, placement) ==
    IF /\ SliceOK(string.packed_text, placement.text_start, placement.text_end)
       /\ SliceOK(string.packed_ruby, placement.ruby_start, placement.ruby_end)
    THEN [self |-> [next_text_start |-> placement.text_end,
                    next_placement_idx |-> self.next_placement_idx + 1],
          item |-> Some(Rubied(
              Slice(string.packed_text, placement.text_start, placement.text_end),
              Slice(string.packed_ruby, placement.ruby_start, placement.ruby_end)))]
    ELSE [self |-> self, item |-> Panic]

\* a next that rewinds the cursor when it reports the end
next_restarts(string, self) ==
    IF self.next_text_start >= Len(string.packed_text)
    THEN [self |-> segments(string), item |-> None]
    ELSE IF self.next_placement_idx >= Len(string.placements)
    THEN next_unrubied_rest(string, self)
    ELSE LET placement == string.placements[self.next_placement_idx + 1]
         IN  IF self.next_text_start < placement.text_start
             THEN next_plain_until(string, self, placement)
             ELSE next_rubied(string, self, placement)

next(string, self) ==
    IF self.next_text_start >= Len(string.packed_text)
    THEN [self |-> self, item |-> None]
    ELSE IF self.next_placement_idx >= Len(string.placements)
    THEN next_unrubied_rest(string, self)
    ELSE LET placement == string.placements[self.next_placement_idx + 1]
         IN  IF self.next_text_start < placement.text_start
             THEN next_plain_until(string, self, placement)
             ELSE next_rubied(string, self, placement)

\* Iterator::collect / map: every item the cursor yields until it returns None
RECURSIVE Drain(_, _)
Drain(string, it) ==
    LET r == next(string, it)
    IN  IF r.item.tag = "Some"
        THEN <<r.item.val>> \o Drain(string, r.self)
        ELSE <<>>

\* whether that loop is cut short by a slice that panics
RECURSIVE DrainPanics(_, _)
DrainPanics(string, it) ==
    LET r == next(string, it)
    IN  IF r.item.tag = "Some"
        THEN DrainPanics(string, r.self)
        ELSE r.item = Panic

\* .map(|s| s.plain_text()).collect::<String>()
RECURSIVE ConcatPlainText(_)
ConcatPlainText(segs) ==
    IF segs = <<>> THEN <<>>
    ELSE plain_text(Head(segs)) \o ConcatPlainText(Tail(segs))

\* .map(|s| s.to_interlinear_encoding()).collect::<String>()
RECURSIVE ConcatEncoding(_)
ConcatEncoding(segs) ==
    IF segs = <<>> THEN <<>>
    ELSE Segment_to_interlinear_encoding(Head(segs)) \o ConcatEncoding(Tail(segs))

to_plain_text(self) ==
    IF DrainPanics(self, segments(self))
    THEN Panic
    ELSE ConcatPlainText(Drain(self, segments(self)))

to_interlinear_encoding(self) ==
    IF DrainPanics(self, segments(self))
    THEN Panic
    ELSE ConcatEncoding(Drain(self, segments(self)))

(***************************************************************************)
(* The state machine: one container, the calls made on it, two cursors.    *)
(***************************************************************************)
Init ==
    /\ \/ rs = new /\ ctor = [op |-> "new"]
       \/ \E val \in Texts : rs = from(val) /\ ctor = [op |-> "from", val |-> val]
    /\ hist = <<>>
    /\ last_call = ctor
    /\ live = {}
    /\ its = [i \in Cursors |-> segments(rs)]
    /\ out = [i \in Cursors |-> <<>>]
    /\ ret = [i \in Cursors |-> Unstarted]

\* calls made so far that took a text
CallsMade == Len(hist) + (IF ctor.op = "from" THEN 1 ELSE 0)

\* &mut self: no cursor borrows the container
PushStr(string) ==
    /\ live = {}
    /\ CallsMade < MaxCalls
    /\ rs' = push_str(rs, string)
    /\ hist' = Append(hist, Plain(string))
    /\ last_call' = [op |-> "push_str", string |-> string]
    /\ UNCHANGED <<ctor, live, its, out, ret>>

PushSegment(segment) ==
    /\ live = {}
    /\ CallsMade < MaxCalls
    /\ rs' = push_segment(rs, segment)
    /\ hist' = Append(hist, segment)
    /\ last_call' = [op |-> "push_segment", segment |-> segment]
    /\ UNCHANGED <<ctor, live, its, out, ret>>

Extend(iter) ==
    /\ live = {}
    /\ CallsMade + Len(iter) <= MaxCalls
    /\ rs' = extend(rs, iter)
    /\ hist' = hist \o iter
    /\ last_call' = [op |-> "extend", iter |-> iter]
    /\ UNCHANGED <<ctor, live, its, out, ret>>

ToPlainText ==
    /\ last_call' = [op |-> "to_plain_text", result |-> to_plain_text(rs)]
    /\ UNCHANGED <<rs, ctor, hist, live, its, out, ret>>

ToInterlinearEncoding ==
    /\ last_call' = [op |-> "to_interlinear_encoding",
                     result |-> to_interlinear_encoding(rs)]
    /\ UNCHANGED <<rs, ctor, hist, live, its, out, ret>>

CallSegments(i) ==
    /\ i \notin live
    /\ live' = live \cup {i}
    /\ its' = [its EXCEPT ![i] = segments(rs)]
    /\ out' = [out EXCEPT ![i] = <<>>]
    /\ ret' = [ret EXCEPT ![i] = Unstarted]
    /\ last_call' = [op |-> "segments"]
    /\ UNCHANGED <<rs, ctor, hist>>

\* a cursor position kept in one place for every cursor of the container
AdvanceShared(cursors, i) ==
    [j \in DOMAIN cursors |-> next(rs, cursors[i]).self]

\* &mut self of one cursor: only that cursor's fields are assigned
Advance(cursors, i) ==
    [cursors EXCEPT ![i] = next(rs, cursors[i]).self]

IterNext(i) ==
    /\ i \in live
    /\ LET r == next(rs, its[i])
       IN  /\ its' = Advance(its, i)
           /\ ret' = [ret EXCEPT ![i] = r.item]
           /\ out' = [out EXCEPT ![i] =
                        IF r.item.tag = "Some" THEN Append(@, r.item.val) ELSE @]
    /\ UNCHANGED <<rs, ctor, hist, last_call, live>>

\* the cursor goes out of scope and its borrow of the container ends
DropIter(i) ==
    /\ i \in live
    /\ live' = live \ {i}
    /\ its' = [its EXCEPT ![i] = segments(rs)]
    /\ out' = [out EXCEPT ![i] = <<>>]
    /\ ret' = [ret EXCEPT ![i] = Unstarted]
    /\ UNCHANGED <<rs, ctor, hist, last_call>>

\* the calls on the container, and one cursor over it
Next ==
    \/ \E string \in Texts : PushStr(string)
    \/ \E segment \in Segments : PushSegment(segment)
    \/ \E iter \in SegmentIters : Extend(iter)
    \/ ToPlainText
    \/ ToInterlinearEncoding
    \/ CallSegments(1)
    \/ IterNext(1)
    \/ DropIter(1)

Spec == Init /\ [][Next]_vars

\* the pushes, and two cursors over the container whose calls interleave
NextTwo ==
    \/ \E string \in Texts : PushStr(string)
    \/ \E segment \in Segments : PushSegment(segment)
    \/ \E i \in Cursors : CallSegments(i)
    \/ \E i \in Cursors : IterNext(i)
    \/ \E i \in Cursors : DropIter(i)

SpecTwo == Init /\ [][NextTwo]_vars

(***************************************************************************)
(* What the calls made so far were given, for the properties below.        *)
(***************************************************************************)
\* the runs handed to the container: a from(val) counts as one plain run
PushHistory ==
    IF ctor.op = "from" THEN <<Plain(ctor.val)>> \o hist ELSE hist

StartedEmpty == ctor.op = "new" \/ ctor.val = <<>>

\* the push history with adjacent plain runs merged and empty plain runs
\* dropped; pending is the plain text not yet closed by an annotated run
RECURSIVE ExpectedRuns(_, _)
ExpectedRuns(h, pending) ==
    LET flush == IF pending = <<>> THEN <<>> ELSE <<Plain(pending)>>
    IN  IF h = <<>> THEN flush
        ELSE IF Head(h).kind = "Plain"
        THEN ExpectedRuns(Tail(h), pending \o Head(h).text)
        ELSE flush \o <<Head(h)>> \o ExpectedRuns(Tail(h), <<>>)

\* the text components of the push history, glosses dropped
RECURSIVE PushedText(_)
PushedText(h) ==
    IF h = <<>> THEN <<>> ELSE Head(h).text \o PushedText(Tail(h))

\* the push history written with one marker triple per annotated run
RECURSIVE ExpectedEncoding(_)
ExpectedEncoding(h) ==
    IF h = <<>> THEN <<>>
    ELSE (IF Head(h).kind = "Plain"
          THEN Head(h).text
          ELSE ANCHOR \o Head(h).text \o SEPARATOR \o Head(h).ruby \o TERMINATOR)
         \o ExpectedEncoding(Tail(h))

RubiedCount(segs) ==
    Cardinality({k \in DOMAIN segs : segs[k].kind = "Rubied"})

\* offsets (1-based) of s at which one of the three delimiters starts
DelimiterPositions(s) ==
    {p \in 1..(Len(s) - 2) : SubSeq(s, p, p + 2) \in {ANCHOR, SEPARATOR, TERMINATOR}}

\* offsets at which the encoding of segs writes the markers of its triples
RECURSIVE TriplePositions(_, _)
TriplePositions(segs, offset) ==
    IF segs = <<>> THEN {}
    ELSE LET h == Head(segs)
         IN  IF h.kind = "Plain"
             THEN TriplePositions(Tail(segs), offset + Len(h.text))
             ELSE LET sep == offset + Len(ANCHOR) + Len(h.text)
                      term == sep + Len(SEPARATOR) + Len(h.ruby)
                  IN  {offset + 1, sep + 1, term + 1}
                      \cup TriplePositions(Tail(segs), term + Len(TERMINATOR))

\* the cursor a fresh cursor becomes after n calls of next() with nothing
\* else going on
RECURSIVE SoloCursor(_, _, _)
SoloCursor(string, it, n) ==
    IF n = 0 THEN it ELSE SoloCursor(string, next(string, it).self, n - 1)

\* the step is a push (every push extends the history)
Pushed == hist' # hist

(***************************************************************************)
(* C1: on a container that started empty, a cursor that has run to None    *)
(* has yielded the push history: every pushed Rubied segment, in order and *)
(* unchanged, with the plain pushes between them concatenated into Plain   *)
(* segments.                                                               *)
(***************************************************************************)
C1_SegmentsReproducePushHistory ==
    StartedEmpty =>
        \A i \in live : ret[i] = None => out[i] = ExpectedRuns(hist, <<>>)

(***************************************************************************)
(* C2: to_interlinear_encoding() is the push history with one              *)
(* U+FFF9 text U+FFFA ruby U+FFFB triple per pushed annotated run and the  *)
(* pushed plain text around them, and the number of triples written is the *)
(* number of placements.                                                   *)
(***************************************************************************)
C2_EncodingHasOneTriplePerRun ==
    last_call.op = "to_interlinear_encoding" =>
        /\ last_call.result = ExpectedEncoding(PushHistory)
        /\ RubiedCount(Drain(rs, segments(rs))) = Len(rs.placements)

(***************************************************************************)
(* C3: after new() and one push of a Rubied segment (text, gloss), a       *)
(* cursor yields that one Rubied segment and nothing else, and the         *)
(* encoding is U+FFF9 text U+FFFA gloss U+FFFB.                            *)
(***************************************************************************)
C3_SingleAnnotatedRun ==
    (ctor.op = "new" /\ Len(hist) = 1 /\ hist[1].kind = "Rubied") =>
        /\ \A i \in live : ret[i] # Unstarted => out[i] = <<hist[1]>>
        /\ last_call.op = "to_interlinear_encoding" =>
               last_call.result =
                   ANCHOR \o hist[1].text \o SEPARATOR \o hist[1].ruby \o TERMINATOR

(***************************************************************************)
(* C4: to_plain_text() returns the text components of the pushed runs      *)
(* concatenated in push order, which is the whole packed_text buffer.      *)
(***************************************************************************)
C4_PlainTextIsPushedText ==
    last_call.op = "to_plain_text" =>
        /\ last_call.result = PushedText(PushHistory)
        /\ last_call.result = rs.packed_text

C4_Witness ==
    /\ last_call.op = "to_plain_text"
    /\ ctor.op = "new"
    /\ Len(hist) = 3
    /\ hist[1].kind = "Plain" /\ hist[1].text # <<>>
    /\ hist[2].kind = "Rubied" /\ hist[2].text # <<>> /\ hist[2].ruby # <<>>
    /\ hist[3].kind = "Rubied" /\ hist[3].text = <<>>

(***************************************************************************)
(* C5: in the result of to_interlinear_encoding() a delimiter character    *)
(* stands only where the encoding of an annotated run wrote its anchor,    *)
(* separator or terminator, whatever the pushed texts contain.             *)
(***************************************************************************)
C5_NoDelimiterOutsideTriples ==
    last_call.op = "to_interlinear_encoding" =>
        DelimiterPositions(last_call.result)
            \subseteq TriplePositions(Drain(rs, segments(rs)), 0)

(***************************************************************************)
(* C6: two cursors over the same container are independent: under every    *)
(* interleaving each has yielded a prefix of what a cursor run alone       *)
(* yields and stands where that cursor would stand, a finished cursor has  *)
(* yielded all of it, two finished cursors have yielded the same, and a    *)
(* next() call changes neither the container nor the other cursor.         *)
(***************************************************************************)
C6_EachAsAlone ==
    LET alone == Drain(rs, segments(rs))
    IN  /\ \A i \in live :
              /\ Len(out[i]) <= Len(alone)
              /\ out[i] = SubSeq(alone, 1, Len(out[i]))
              /\ its[i] = SoloCursor(rs, segments(rs), Len(out[i]))
              /\ ret[i] = None => out[i] = alone
        /\ (live = Cursors /\ \A i \in Cursors : ret[i] = None) =>
              \A i, j \in Cursors : out[i] = out[j]

C6_NextLeavesTheRest ==
    \A i \in Cursors :
        IterNext(i) =>
            /\ rs' = rs
            /\ \A j \in Cursors \ {i} :
                  its'[j] = its[j] /\ out'[j] = out[j] /\ ret'[j] = ret[j]

\* C6: both parts, in every state and at every step of two interleaved cursors
C6_CursorsIndependent == []C6_EachAsAlone /\ [][C6_NextLeavesTheRest]_vars

C6_Witness ==
    /\ live = Cursors
    /\ Len(rs.placements) >= 1
    /\ ret[1] = None
    /\ Len(out[1]) = 3
    /\ Len(out[2]) = 1
    /\ ret[2] # None

(***************************************************************************)
(* C7: a cursor has yielded at most 2 * (number of placements) + 1         *)
(* segments, it never stops by a panic, and once it has yielded that many  *)
(* the next call returns None.                                             *)
(***************************************************************************)
C7_IterationBounded ==
    \A i \in live :
        /\ Len(out[i]) <= 2 * Len(rs.placements) + 1
        /\ ret[i] # Panic
        /\ Len(out[i]) = 2 * Len(rs.placements) + 1 => next(rs, its[i]).item = None

C7_Witness ==
    \E i \in live :
        /\ Len(rs.placements) = 1
        /\ Len(out[i]) = 3
        /\ ret[i] = None

(***************************************************************************)
(* C8: a container made by new() and not pushed to has empty buffers and   *)
(* no placements, its plain text and its encoding are empty, and a cursor  *)
(* over it returns None on the first call.                                 *)
(***************************************************************************)
C8_NewIsEmpty ==
    (ctor.op = "new" /\ hist = <<>>) =>
        /\ rs.packed_text = <<>>
        /\ rs.packed_ruby = <<>>
        /\ rs.placements = <<>>
        /\ last_call.op = "to_plain_text" => last_call.result = <<>>
        /\ last_call.op = "to_interlinear_encoding" => last_call.result = <<>>
        /\ \A i \in live : out[i] = <<>> /\ ret[i] \in {Unstarted, None}

C8_Witness ==
    /\ ctor.op = "new"
    /\ hist = <<>>
    /\ last_call.op = "to_interlinear_encoding"
    /\ live = {1}
    /\ ret[1] = None

(***************************************************************************)
(* C9: a push_segment of Plain{text} leaves the container as push_str of   *)
(* that text leaves it from the same starting state.                       *)
(***************************************************************************)
C9_PlainSegmentStep ==
    (/\ Pushed
     /\ last_call'.op = "push_segment"
     /\ last_call'.segment.kind = "Plain") =>
        rs' = push_str(rs, last_call'.segment.text)

\* C9: every push_segment(Plain{text}) step is a push_str(text) step
C9_PlainSegmentIsPushStr == [][C9_PlainSegmentStep]_vars

C9_Witness ==
    /\ last_call.op = "push_segment"
    /\ last_call.segment.kind = "Plain"
    /\ last_call.segment.text # <<>>
    /\ Len(rs.placements) >= 1
    /\ rs.packed_ruby # <<>>

(***************************************************************************)
(* C10: push_str(t) appends t to packed_text and leaves packed_ruby and    *)
(* the placement list as they were.                                        *)
(***************************************************************************)
C10_PushStrStep ==
    (Pushed /\ last_call'.op = "push_str") =>
        /\ rs'.packed_text = rs.packed_text \o last_call'.string
        /\ rs'.packed_ruby = rs.packed_ruby
        /\ rs'.placements = rs.placements

\* C10: every push_str step appends to packed_text and changes nothing else
C10_PushStrFrame == [][C10_PushStrStep]_vars

C10_Witness ==
    /\ last_call.op = "push_str"
    /\ last_call.string # <<>>
    /\ Len(rs.placements) >= 1
    /\ rs.packed_ruby # <<>>
    /\ Len(rs.packed_text) > rs.placements[Len(rs.placements)].text_end

\* s is t cut off at Len(s)
IsPrefix(s, t) == Len(s) <= Len(t) /\ s = SubSeq(t, 1, Len(s))

(***************************************************************************)
(* C11: the container is append-only: across every step (push_str,         *)
(* push_segment and extend included) the old packed_text, packed_ruby and  *)
(* placement list are prefixes of the new ones.                            *)
(***************************************************************************)
C11_AppendStep ==
    /\ IsPrefix(rs.packed_text, rs'.packed_text)
    /\ IsPrefix(rs.packed_ruby, rs'.packed_ruby)
    /\ IsPrefix(rs.placements, rs'.placements)

\* C11: every step of the container is an append step
C11_AppendOnly == [][C11_AppendStep]_vars

C11_Witness ==
    /\ last_call.op = "extend"
    /\ Len(last_call.iter) = 2
    /\ last_call.iter[1].kind = "Rubied" /\ last_call.iter[1].ruby # <<>>
    /\ last_call.iter[2].kind = "Plain" /\ last_call.iter[2].text # <<>>
    /\ Len(hist) = 3
    /\ hist[1].kind = "Rubied" /\ hist[1].text # <<>> /\ hist[1].ruby # <<>>

(***************************************************************************)
(* C12: in every container reached from new() or from(text) by push_str,  *)
(* push_segment and extend, each placement has text_start <= text_end and  *)
(* ruby_start <= ruby_end, and each placement starts in the text at or     *)
(* after the end of the one before it.                                     *)
(***************************************************************************)
C12_PlacementsOrdered ==
    /\ \A k \in DOMAIN rs.placements :
          /\ rs.placements[k].text_start <= rs.placements[k].text_end
          /\ rs.placements[k].ruby_start <= rs.placements[k].ruby_end
    /\ \A k \in 1..(Len(rs.placements) - 1) :
          rs.placements[k + 1].text_start >= rs.placements[k].text_end

C12_Witness ==
    /\ ctor.op = "from" /\ ctor.val # <<>>
    /\ Len(rs.placements) = 2
    /\ rs.placements[1].text_start < rs.placements[1].text_end
    /\ rs.placements[2].text_start = rs.placements[2].text_end
    /\ rs.placements[2].ruby_start < rs.placements[2].ruby_end
    /\ last_call.op = "extend"

\* the placement a cursor considers next, when there is one
HasPlacement(it) == it.next_placement_idx < Len(rs.placements)

NextPlacement(it) == rs.placements[it.next_placement_idx + 1]

\* the branch the next call of next() on the cursor takes
TakesUnrubiedRest(it) ==
    /\ it.next_text_start < Len(rs.packed_text)
    /\ ~HasPlacement(it)

TakesPlainUntil(it) ==
    /\ it.next_text_start < Len(rs.packed_text)
    /\ HasPlacement(it)
    /\ it.next_text_start < NextPlacement(it).text_start

TakesRubied(it) ==
    /\ it.next_text_start < Len(rs.packed_text)
    /\ HasPlacement(it)
    /\ ~(it.next_text_start < NextPlacement(it).text_start)

(***************************************************************************)
(* C13: a cursor that has a placement ahead stands at or before that       *)
(* placement's text_start, so when next() takes the branch that yields a   *)
(* Rubied segment the cursor stands exactly at the placement's text_start. *)
(***************************************************************************)
C13_CursorNotPastPlacement ==
    \A i \in live :
        /\ HasPlacement(its[i]) =>
              its[i].next_text_start <= NextPlacement(its[i]).text_start
        /\ TakesRubied(its[i]) =>
              its[i].next_text_start = NextPlacement(its[i]).text_start

C13_Witness ==
    \E i \in live :
        /\ TakesRubied(its[i])
        /\ its[i].next_text_start > 0
        /\ its[i].next_placement_idx = 1
        /\ ret[i].tag = "Some"

(***************************************************************************)
(* C14: within one iteration next_text_start and next_placement_idx never  *)
(* decrease, each yielded segment's text is the bytes of packed_text from  *)
(* next_text_start before the call to next_text_start after it, so what    *)
(* has been yielded is packed_text up to the cursor with no byte twice,    *)
(* and a cursor that has returned None has covered all of packed_text.     *)
(***************************************************************************)
C14_YieldedIsTextUpToCursor ==
    \A i \in live :
        /\ its[i].next_text_start <= Len(rs.packed_text)
        /\ ConcatPlainText(out[i]) = Slice(rs.packed_text, 0, its[i].next_text_start)
        /\ ret[i] = None => its[i].next_text_start = Len(rs.packed_text)

C14_ForwardStep ==
    \A i \in Cursors :
        IterNext(i) =>
            /\ its'[i].next_text_start >= its[i].next_text_start
            /\ its'[i].next_placement_idx >= its[i].next_placement_idx
            /\ ret'[i].tag = "Some" =>
                  /\ Len(ret'[i].val.text) =
                         its'[i].next_text_start - its[i].next_text_start
                  /\ ret'[i].val.text = Slice(rs.packed_text,
                                              its[i].next_text_start,
                                              its'[i].next_text_start)

\* C14: the cursor only moves forward and yields contiguous, disjoint ranges
C14_NoByteRevisited == []C14_YieldedIsTextUpToCursor /\ [][C14_ForwardStep]_vars

C14_Witness ==
    \E i \in live :
        /\ ret[i] = None
        /\ Len(out[i]) = 3
        /\ out[i][1].kind = "Plain"
        /\ out[i][2].kind = "Rubied" /\ out[i][2].text # <<>>
        /\ out[i][3].kind = "Plain"

(***************************************************************************)
(* C15: exhaustion is terminal: a next() that returns None leaves the      *)
(* cursor as it was, after a None every further next() returns None, and   *)
(* the call that yields the final Plain run (no placement remains) puts    *)
(* next_text_start at the length of packed_text, so that the call after it *)
(* returns None.                                                           *)
(***************************************************************************)
C15_ExhaustionStep ==
    \A i \in Cursors :
        IterNext(i) =>
            /\ ret'[i] = None => its'[i] = its[i]
            /\ ret[i] = None => ret'[i] = None
            /\ TakesUnrubiedRest(its[i]) =>
                  /\ ret'[i].tag = "Some"
                  /\ ret'[i].val.kind = "Plain"
                  /\ its'[i].next_text_start = Len(rs.packed_text)
                  /\ next(rs, its'[i]).item = None

\* C15: every next() step keeps to the three parts above
C15_ExhaustionIsTerminal == [][C15_ExhaustionStep]_vars

C15_Witness ==
    \E i \in live :
        /\ ret[i] = None
        /\ Len(out[i]) = 2
        /\ out[i][1].kind = "Rubied"
        /\ out[i][2].kind = "Plain"
        /\ its[i].next_text_start = Len(rs.packed_text)
        /\ its[i].next_text_start > 0

(***************************************************************************)
(* C16: a next() that yields a Plain segment because the cursor is below   *)
(* the next placement p yields packed_text[next_text_start..p.text_start]  *)
(* and leaves next_placement_idx alone, and the next() after it yields the *)
(* Rubied segment of p, moving the cursor to p.text_end and one placement  *)
(* on.                                                                     *)
(***************************************************************************)
C16_PlainThenRubiedStep ==
    \A i \in Cursors :
        (IterNext(i) /\ TakesPlainUntil(its[i])) =>
            LET p == NextPlacement(its[i])
            IN  /\ ret'[i] = Some(Plain(Slice(rs.packed_text,
                                              its[i].next_text_start, p.text_start)))
                /\ its'[i].next_placement_idx = its[i].next_placement_idx
                /\ next(rs, its'[i]) =
                       [self |-> [next_text_start |-> p.text_end,
                                  next_placement_idx |-> its[i].next_placement_idx + 1],
                        item |-> Some(Rubied(
                            Slice(rs.packed_text, p.text_start, p.text_end),
                            Slice(rs.packed_ruby, p.ruby_start, p.ruby_end)))]

\* C16: every such step is followed by the Rubied segment of the same placement
C16_PlainThenRubied == [][C16_PlainThenRubiedStep]_vars

(***************************************************************************)
(* C17: the gloss ranges of the placements tile packed_ruby: the first     *)
(* starts at 0, each ends where the next starts, the last ends at the      *)
(* length of packed_ruby, and packed_ruby is empty when there is no        *)
(* placement.                                                              *)
(***************************************************************************)
C17_RubyRangesTile ==
    LET n == Len(rs.placements)
    IN  /\ n = 0 => Len(rs.packed_ruby) = 0
        /\ n > 0 =>
              /\ rs.placements[1].ruby_start = 0
              /\ rs.placements[n].ruby_end = Len(rs.packed_ruby)
        /\ \A k \in 1..(n - 1) :
              rs.placements[k].ruby_end = rs.placements[k + 1].ruby_start

C17_Witness ==
    /\ ctor.op = "from" /\ ctor.val # <<>>
    /\ Len(rs.placements) = 2
    /\ rs.placements[1].ruby_end > 0
    /\ rs.placements[2].ruby_end > rs.placements[2].ruby_start
    /\ rs.placements[2].text_end > rs.placements[2].text_start

(***************************************************************************)
(* C18: the segments a cursor yields are maximal: a Plain segment never    *)
(* has empty text and no two segments yielded one after the other are both *)
(* Plain.                                                                  *)
(***************************************************************************)
C18_SegmentsMaximal ==
    \A i \in live :
        /\ \A k \in DOMAIN out[i] :
              out[i][k].kind = "Plain" => out[i][k].text # <<>>
        /\ \A k \in 1..(Len(out[i]) - 1) :
              ~(out[i][k].kind = "Plain" /\ out[i][k + 1].kind = "Plain")

C18_Witness ==
    \E i \in live :
        /\ Len(hist) = 3
        /\ hist[1] = Plain(<<97>>)
        /\ hist[2] = Plain(<<97>>)
        /\ hist[3].kind = "Rubied" /\ hist[3].text # <<>>
        /\ ctor.op = "new"
        /\ out[i] = <<Plain(<<97, 97>>), hist[3]>>

(***************************************************************************)
(* C19: nothing fails on a container built by pushes: every placement      *)
(* lies within the buffers, a cursor never stands past the end of          *)
(* packed_text, and no slice taken by next(), directly or through          *)
(* to_plain_text() and to_interlinear_encoding(), is out of range.         *)
(***************************************************************************)
C19_NoPanic ==
    /\ \A k \in DOMAIN rs.placements :
          /\ rs.placements[k].text_end <= Len(rs.packed_text)
          /\ rs.placements[k].ruby_end <= Len(rs.packed_ruby)
    /\ \A i \in live :
          /\ its[i].next_text_start <= Len(rs.packed_text)
          /\ ret[i] # Panic
          /\ next(rs, its[i]).item # Panic
    /\ ~DrainPanics(rs, segments(rs))

C19_Witness ==
    \E i \in live :
        /\ Len(rs.placements) = 2
        /\ rs.placements[2].text_end = Len(rs.packed_text)
        /\ rs.placements[2].text_start < rs.placements[2].text_end
        /\ rs.placements[2].ruby_end = Len(rs.packed_ruby)
        /\ rs.placements[1].text_start > 0
        /\ ret[i] = None
        /\ Len(out[i]) = 3

(***************************************************************************)
(* C20: collecting the segments of a container into a new RubyString gives *)
(* a container equal to it: the same packed_text, packed_ruby and          *)
(* placements.                                                             *)
(***************************************************************************)
C20_RebuildIsIdentity ==
    from_iter(Drain(rs, segments(rs))) = rs

====
